---- MODULE Spec2Model ----
(***************************************************************************)
(* A model of the chat store of DeepRP (client/src/stores/appStore.js):    *)
(* sendMessage, regenerateMessage, stopStreaming, createSession and        *)
(* loadSession, with the SSE read loops of the two turn entry points and   *)
(* the user interface guards of InputBox and ChatWindow/MessageBubble.     *)
(*                                                                         *)
(* Strings are sequences of one-character strings ("" is <<>>), message    *)
(* ids are pairs <<prefix, n>> (`assistant-${Date.now()}` is               *)
(* <<"assistant", n>>), and an absent JSON field is the falsy value of its *)
(* type: the code tests every field by truthiness only.                    *)
(***************************************************************************)
EXTENDS Integers, Sequences, FiniteSets, TLC

\* ---------------------------------------------------------------- bounds
\* Invocations of sendMessage / regenerateMessage in one behaviour.
MaxTurns == 2
\* Frames (complete `data: ` lines) the server sends, over all turns.
MaxFrames == 3
\* loadSession calls in one behaviour.
MaxLoads == 1
\* Lines of the response body the frame reader is run on.
MaxLines == 3

\* ---------------------------------------------------------------- values
NoId == <<>>
NoSession == "null"
NoStage == "null"
NoUrl == ""

\* The text the user submits (InputBox: input.trim(), non-empty).
UserText == <<"h", "i">>

\* `⚠️ Error: ` of the template literals at lines 460, 477, 564, 579
\* (ten UTF-16 code units).
ErrorPrefix == <<"W", "!", " ", "E", "r", "r", "o", "r", ":", " ">>

\* activeCharacter.data.first_mes after the {{user}}/{{char}} replacement.
FirstMes == <<"g">>

Message(id, role, content) ==
    [id |-> id, role |-> role, content |-> content, isError |-> FALSE, image_url |-> NoUrl]

\* A parsed SSE record: every field the classifier reads.
EmptyEvent ==
    [stage |-> "", type |-> "", content |-> <<>>, prompt |-> <<>>, url |-> NoUrl,
     message_id |-> NoId, done |-> FALSE, processed_content |-> <<>>, error |-> <<>>]

\* The id the server assigns to the assistant message of turn t.
ServerId(t) == <<"srv", t>>

Delta(c) == [EmptyEvent EXCEPT !.type = "content", !.content = c]

\* The records of the plain chat endpoint, for turn t.
ChatEvents(t) ==
    { Delta(<<"a">>),
      Delta(<<"b", "c">>),
      [Delta(<<"a">>) EXCEPT !.message_id = ServerId(t)],
      [EmptyEvent EXCEPT !.message_id = ServerId(t)],
      [EmptyEvent EXCEPT !.type = "processed_content", !.content = <<"P", "P">>],
      [EmptyEvent EXCEPT !.done = TRUE],
      [EmptyEvent EXCEPT !.done = TRUE, !.processed_content = <<"Q">>],
      [EmptyEvent EXCEPT !.done = TRUE, !.processed_content = <<"Q">>,
                         !.message_id = ServerId(t)],
      [EmptyEvent EXCEPT !.error = <<"e">>] }

\* The records only the agent pipeline sends (stages, side channels, images).
AgentEvents(t) ==
    { [EmptyEvent EXCEPT !.stage = "director"],
      [EmptyEvent EXCEPT !.stage = "writer"],
      [EmptyEvent EXCEPT !.stage = "paint_director"],
      [EmptyEvent EXCEPT !.type = "director_chunk", !.content = <<"o">>],
      [EmptyEvent EXCEPT !.type = "director_chunk", !.content = <<"o">>,
                         !.stage = "director"],
      [EmptyEvent EXCEPT !.type = "outline", !.content = <<"O">>],
      [EmptyEvent EXCEPT !.type = "outline", !.content = <<"O">>, !.done = TRUE],
      [EmptyEvent EXCEPT !.type = "paint_chunk", !.content = <<"p">>],
      [EmptyEvent EXCEPT !.type = "image", !.prompt = <<"R">>],
      [EmptyEvent EXCEPT !.type = "image", !.url = "u1"],
      [EmptyEvent EXCEPT !.type = "image", !.prompt = <<"R">>, !.url = "u1"],
      [EmptyEvent EXCEPT !.type = "paint_chunk", !.content = <<"p">>,
                         !.url = "u1", !.message_id = ServerId(t),
                         !.done = TRUE, !.error = <<"e">>] }

\* The payload of a `data: ` line as it is on the wire: the JSON text of a
\* record, complete or cut before its closing brace.
Payload(e, complete) == [json |-> e, complete |-> complete]

\* JSON.parse: the record of a complete text, a SyntaxError otherwise.
JSONparse(data) ==
    IF data.complete THEN [ok |-> TRUE, event |-> data.json]
                     ELSE [ok |-> FALSE, event |-> EmptyEvent]

\* ----------------------------------------------------------------- state
VARIABLES
    store,      \* the zustand state read and written by the chat actions
    turns,      \* one closure per sendMessage / regenerateMessage invocation
    clock,      \* Date.now()
    loads,      \* loadSession calls: pc "pending" until the session arrives
    log,        \* history: per turn, the payloads its read loop has handled
    reader,     \* one read loop at the level of bytes: body, decoder, buffer
    wire        \* history: the lines the server wrote to that body

vars == <<store, turns, clock, loads, log, reader, wire>>

Range(seq) == {seq[i] : i \in DOMAIN seq}

\* messages.map(m => test(m) ? change(m) : m); test and change are given as
\* functions on the messages of the list.
MapMessages(messages, test, change) ==
    [i \in 1..Len(messages) |->
        IF test[messages[i]] THEN change[messages[i]] ELSE messages[i]]

\* A read loop's view: the store and the closure's two mutable locals.
Ctx(st, turn) ==
    [st |-> st, assistantContent |-> turn.assistantContent,
     assistantMsgId |-> turn.assistantMsgId]

\* ------------------------------------------- sendMessage: one parsed record
\* if (event.stage) { set agentStage; open the popup and reset its output }
ApplyStage(c, event) ==
    IF event.stage = "" THEN c
    ELSE LET s1 == [c.st EXCEPT !.agentStage = event.stage]
             s2 == IF event.stage = "director"
                   THEN [s1 EXCEPT !.showDirectorPopup = TRUE, !.directorOutput = <<>>]
                   ELSE s1
             s3 == IF event.stage = "paint_director"
                   THEN [s2 EXCEPT !.showPaintDirectorPopup = TRUE,
                                   !.paintDirectorOutput = <<>>]
                   ELSE s2
         IN  [c EXCEPT !.st = s3]

\* ApplyDirectorChunk writing the chunk into the turn's message as well.
ApplyDirectorChunkToMessage(c, event) ==
    [c EXCEPT !.st.directorOutput = @ \o event.content,
              !.st.messages = MapMessages(@,
                   [m \in Range(@) |-> m.id = c.assistantMsgId],
                   [m \in Range(@) |-> [m EXCEPT !.content = @ \o event.content]])]

\* director_chunk: append to directorOutput
ApplyDirectorChunk(c, event) ==
    [c EXCEPT !.st.directorOutput = @ \o event.content]

\* outline: replace directorOutput when the record has content
ApplyOutline(c, event) ==
    IF event.content # <<>> THEN [c EXCEPT !.st.directorOutput = event.content] ELSE c

\* paint_chunk: append to paintDirectorOutput
ApplyPaintChunk(c, event) ==
    [c EXCEPT !.st.paintDirectorOutput = @ \o event.content]

\* image with a prompt: replace paintDirectorOutput
ApplyImagePrompt(c, event) ==
    IF event.type = "image" /\ event.prompt # <<>>
    THEN [c EXCEPT !.st.paintDirectorOutput = event.prompt]
    ELSE c

\* ApplyContent writing the delta alone instead of the accumulated text.
ApplyContentDeltaOnly(c, event) ==
    IF event.type = "content" /\ event.content # <<>>
    THEN [c EXCEPT !.assistantContent = @ \o event.content,
                   !.st.messages = MapMessages(@,
                        [m \in Range(@) |-> m.id = c.assistantMsgId],
                        [m \in Range(@) |-> [m EXCEPT !.content = event.content]])]
    ELSE c

\* content: assistantContent += event.content; write it to the message
ApplyContent(c, event) ==
    IF event.type = "content" /\ event.content # <<>>
    THEN LET acc == c.assistantContent \o event.content
         IN  [c EXCEPT !.assistantContent = acc,
                       !.st.messages = MapMessages(@,
                            [m \in Range(@) |-> m.id = c.assistantMsgId],
                            [m \in Range(@) |-> [m EXCEPT !.content = acc]])]
    ELSE c

\* image with a url: append to sessionImages, set the message's image_url
ApplyImage(c, event) ==
    IF event.type = "image" /\ event.url # NoUrl
    THEN [c EXCEPT !.st.sessionImages =
                        Append(@, [url |-> event.url, messageId |-> c.assistantMsgId]),
                   !.st.messages = MapMessages(@,
                        [m \in Range(@) |-> m.id = c.assistantMsgId],
                        [m \in Range(@) |-> [m EXCEPT !.image_url = event.url]])]
    ELSE c

\* processed_content: replace the message's content
ApplyProcessed(c, event) ==
    IF event.type = "processed_content" /\ event.content # <<>>
    THEN [c EXCEPT !.st.messages = MapMessages(@,
                        [m \in Range(@) |-> m.id = c.assistantMsgId],
                        [m \in Range(@) |-> [m EXCEPT !.content = event.content]])]
    ELSE c

\* ApplyMessageId tracking the new id without renaming the message (what
\* regenerateMessage does).
ApplyMessageIdUntracked(c, event) ==
    IF event.message_id # NoId /\ event.message_id # c.assistantMsgId
    THEN [c EXCEPT !.assistantMsgId = event.message_id]
    ELSE c

\* message_id differing from the tracked id: track it, rename the message
ApplyMessageId(c, event) ==
    IF event.message_id # NoId /\ event.message_id # c.assistantMsgId
    THEN LET oldId == c.assistantMsgId
         IN  [c EXCEPT !.assistantMsgId = event.message_id,
                       !.st.messages = MapMessages(@,
                            [m \in Range(@) |-> m.id = oldId],
                            [m \in Range(@) |-> [m EXCEPT !.id = event.message_id]])]
    ELSE c

\* ApplyDone without the processed_content branch.
ApplyDoneKeepContent(c, event) ==
    IF event.done
    THEN [c EXCEPT !.st = [c.st EXCEPT !.isStreaming = FALSE, !.agentStage = NoStage]]
    ELSE c

\* done: isStreaming false, agentStage null, processed_content replaces content
ApplyDone(c, event) ==
    IF event.done
    THEN LET s1 == [c.st EXCEPT !.isStreaming = FALSE, !.agentStage = NoStage]
         IN  IF event.processed_content # <<>>
             THEN [c EXCEPT !.st = [s1 EXCEPT !.messages = MapMessages(@,
                        [m \in Range(@) |-> m.id = c.assistantMsgId],
                        [m \in Range(@) |-> [m EXCEPT !.content = event.processed_content]])]]
             ELSE [c EXCEPT !.st = s1]
    ELSE c

\* error: the message shows the error text and is flagged; the turn stops
\* showing as streaming
ApplyError(c, event) ==
    IF event.error # <<>>
    THEN [c EXCEPT !.st = [c.st EXCEPT
                !.messages = MapMessages(@,
                    [m \in Range(@) |-> m.id = c.assistantMsgId],
                    [m \in Range(@) |-> [m EXCEPT !.content = ErrorPrefix \o event.error,
                                         !.isError = TRUE]]),
                !.isStreaming = FALSE,
                !.agentStage = NoStage]]
    ELSE c

\* HandleEvent without the `continue` of the chunk branches: the rest of the
\* record is processed after its chunk.
HandleEventNoContinue(c, event) ==
    LET c1 == ApplyStage(c, event)
        c2 == IF event.type = "director_chunk" /\ event.content # <<>>
              THEN ApplyDirectorChunk(c1, event)
              ELSE IF event.type = "paint_chunk" /\ event.content # <<>>
              THEN ApplyPaintChunk(c1, event)
              ELSE c1
    IN  IF event.type = "outline"
        THEN ApplyOutline(c2, event)
        ELSE ApplyError(
               ApplyDone(
                 ApplyMessageId(
                   ApplyProcessed(
                     ApplyImage(
                       ApplyContent(
                         ApplyImagePrompt(c2, event), event), event), event), event),
                 event), event)

\* The body of the try block for one parsed record, with its `continue`s.
HandleEvent(c, event) ==
    LET c1 == ApplyStage(c, event)
    IN  IF event.type = "director_chunk" /\ event.content # <<>>
        THEN ApplyDirectorChunk(c1, event)
        ELSE IF event.type = "outline"
        THEN ApplyOutline(c1, event)
        ELSE IF event.type = "paint_chunk" /\ event.content # <<>>
        THEN ApplyPaintChunk(c1, event)
        ELSE ApplyError(
               ApplyDone(
                 ApplyMessageId(
                   ApplyProcessed(
                     ApplyImage(
                       ApplyContent(
                         ApplyImagePrompt(c1, event), event), event), event), event),
                 event), event)

\* HandleLine with the parse error reaching the outer catch: the turn fails.
HandleLineParseFatal(c, data) ==
    LET parsed == JSONparse(data)
    IN  IF parsed.ok THEN HandleEvent(c, parsed.event)
        ELSE ApplyError(c, [EmptyEvent EXCEPT !.error = <<"x">>])

\* try { JSON.parse(data); ... } catch (e) { /* ignore */ }
HandleLine(c, data) ==
    LET parsed == JSONparse(data)
    IN  IF parsed.ok THEN HandleEvent(c, parsed.event) ELSE c

\* -------------------------------------- regenerateMessage: one parsed record
\* if (event.content) { newContent += event.content; write it to the message }
RegenApplyContent(c, event) ==
    IF event.content # <<>>
    THEN LET acc == c.assistantContent \o event.content
         IN  [c EXCEPT !.assistantContent = acc,
                       !.st.messages = MapMessages(@,
                            [m \in Range(@) |-> m.id = c.assistantMsgId],
                            [m \in Range(@) |-> [m EXCEPT !.content = acc]])]
    ELSE c

\* if (event.message_id) newMsgId = event.message_id
RegenApplyMessageId(c, event) ==
    IF event.message_id # NoId THEN [c EXCEPT !.assistantMsgId = event.message_id] ELSE c

\* if (event.done) set({ isStreaming: false })
RegenApplyDone(c, event) ==
    IF event.done THEN [c EXCEPT !.st.isStreaming = FALSE] ELSE c

RegenApplyError(c, event) ==
    IF event.error # <<>>
    THEN [c EXCEPT !.st = [c.st EXCEPT
                !.messages = MapMessages(@,
                    [m \in Range(@) |-> m.id = c.assistantMsgId],
                    [m \in Range(@) |-> [m EXCEPT !.content = ErrorPrefix \o event.error,
                                         !.isError = TRUE]]),
                !.isStreaming = FALSE]]
    ELSE c

RegenHandleEvent(c, event) ==
    RegenApplyError(
      RegenApplyDone(
        RegenApplyMessageId(
          RegenApplyContent(c, event), event), event), event)

RegenHandleLine(c, data) ==
    LET parsed == JSONparse(data)
    IN  IF parsed.ok THEN RegenHandleEvent(c, parsed.event) ELSE c

\* ------------------------------------------------------------ turn closures
\* pc is the await the invocation is suspended at ("createSession", "fetch",
\* "reading"), or how it returned: "done" past the loop, "caught" through its
\* catch block, "rejected" with an exception. History: `provisional` is the
\* first id of the turn's message, `stopped` that stopStreaming was called
\* while the turn was active, `superseded` that another turn made its first
\* state mutation while this one's read loop was reading.
Turn(kind, pc, id, msgIndex) ==
    [kind |-> kind, pc |-> pc, assistantContent |-> <<>>, assistantMsgId |-> id,
     msgIndex |-> msgIndex, provisional |-> id, stopped |-> FALSE,
     superseded |-> FALSE]

Turns == 1..Len(turns)

\* History: a turn makes its first state mutation; the turns then reading.
Supersede(ts) ==
    [t \in DOMAIN ts |-> [ts[t] EXCEPT !.superseded = @ \/ ts[t].pc = "reading"]]

\* A turn whose read loop has not returned: it awaits the response or a chunk.
Active(t) == turns[t].pc \in {"fetch", "reading"}

RECURSIVE SumLen(_, _)
SumLen(f, n) == IF n = 0 THEN 0 ELSE Len(f[n]) + SumLen(f, n - 1)

TotalFrames == SumLen(log, Len(log))

\* Every sequence of 1..n elements of S.
RECURSIVE SeqsUpTo(_, _)
SeqsUpTo(S, n) ==
    IF n = 0 THEN {}
    ELSE {<<x>> : x \in S} \cup
         {Append(q, x) : q \in SeqsUpTo(S, n - 1), x \in S}

Min(a, b) == IF a < b THEN a ELSE b

\* What the plain chat endpoint may put on the wire for turn t.
ChatWire(t) ==
    {Payload(e, TRUE) : e \in ChatEvents(t)} \cup {Payload(Delta(<<"a">>), FALSE)}

\* The frames every turn's stream is made of: a delta, the id, the
\* completion marker, a failure.
CoreWire(t) ==
    {Payload(e, TRUE) : e \in
        {Delta(<<"a">>),
         [EmptyEvent EXCEPT !.message_id = ServerId(t)],
         [EmptyEvent EXCEPT !.done = TRUE],
         [EmptyEvent EXCEPT !.error = <<"e">>]}}

\* The core frames and a stage marker.
StagedWire(t) ==
    CoreWire(t) \cup {Payload([EmptyEvent EXCEPT !.stage = "writer"], TRUE)}

\* What the agent endpoint may put on the wire for turn t.
AgentWire(t) == ChatWire(t) \cup {Payload(e, TRUE) : e \in AgentEvents(t)}

\* A read loop that has no body to read.
IdleReader ==
    [kind |-> "send", pc |-> "idle", body |-> <<>>, pending |-> <<>>,
     buffer |-> <<>>, frames |-> <<>>, cut |-> {}]

\* -------------------------------------------------------------------- Init
InitStore ==
    [messages |-> <<>>, isStreaming |-> FALSE, agentStage |-> NoStage,
     directorOutput |-> <<>>, paintDirectorOutput |-> <<>>,
     showDirectorPopup |-> FALSE, showPaintDirectorPopup |-> FALSE,
     sessionImages |-> <<>>, activeSession |-> NoSession]

Init ==
    /\ store = InitStore
    /\ turns = <<>>
    /\ clock = 1
    /\ loads = <<>>
    /\ log = <<>>
    /\ reader = IdleReader
    /\ wire = [lines |-> <<>>, tail |-> <<>>]

\* ------------------------------------------------------------ createSession
\* createSession once its POST has answered (lines 219-241).
CreateSessionDone(st) ==
    [st EXCEPT !.activeSession = "created",
               !.messages = <<Message(<<"first-mes", 0>>, "assistant", FirstMes)>>,
               !.sessionImages = <<>>]

\* -------------------------------------------------------------- sendMessage
\* SendBegin with the assistant message ahead of the user message.
SendBeginAssistantFirst(st, now) ==
    [st EXCEPT !.messages = @ \o <<Message(<<"assistant", now>>, "assistant", <<>>),
                                   Message(<<"temp", now>>, "user", UserText)>>,
               !.isStreaming = TRUE]

\* Lines 278-309: the user message, isStreaming, the empty assistant message.
SendBegin(st, now) ==
    [st EXCEPT !.messages = @ \o <<Message(<<"temp", now>>, "user", UserText),
                                   Message(<<"assistant", now>>, "assistant", <<>>)>>,
               !.isStreaming = TRUE]

\* InputBox.handleSubmit -> sendMessage(content), up to its first await.
SendMessageUpTo(n) ==
    /\ Len(turns) < n
    /\ ~store.isStreaming
    /\ IF store.activeSession = NoSession
       THEN /\ turns' = Append(turns, Turn("send", "createSession", NoId, 0))
            /\ UNCHANGED <<store, clock>>
       ELSE /\ store' = SendBegin(store, clock)
            /\ turns' = Append(Supersede(turns),
                               Turn("send", "fetch", <<"assistant", clock>>, 0))
            /\ clock' = clock + 1
    /\ log' = Append(log, <<>>)
    /\ UNCHANGED <<loads, reader, wire>>

SendMessage == SendMessageUpTo(MaxTurns)

\* await get().createSession() returns: the session is installed and
\* sendMessage runs on to its fetch.
CreateSessionOk(t) ==
    /\ turns[t].pc = "createSession"
    /\ store' = SendBegin(CreateSessionDone(store), clock)
    /\ turns' = [Supersede(turns) EXCEPT ![t].pc = "fetch",
                                         ![t].assistantMsgId = <<"assistant", clock>>,
                                         ![t].provisional = <<"assistant", clock>>]
    /\ clock' = clock + 1
    /\ UNCHANGED <<loads, log, reader, wire>>

\* createSession's fetch or res.json() rejects: sendMessage has no try
\* around it, so its promise rejects.
CreateSessionFail(t) ==
    /\ turns[t].pc = "createSession"
    /\ turns' = [turns EXCEPT ![t].pc = "rejected"]
    /\ UNCHANGED <<store, clock, loads, log, reader, wire>>

\* fetch resolves with res.ok: the reader is taken.
FetchOk(t) ==
    /\ turns[t].kind = "send"
    /\ turns[t].pc = "fetch"
    /\ turns' = [turns EXCEPT ![t].pc = "reading"]
    /\ UNCHANGED <<store, clock, loads, log, reader, wire>>

\* catch (error) of sendMessage followed by the final set (lines 472-485).
SendCatch(st, id, message) ==
    [st EXCEPT !.messages = MapMessages(@,
                    [m \in Range(@) |-> m.id = id],
                    [m \in Range(@) |-> [m EXCEPT !.content = ErrorPrefix \o message,
                                         !.isError = TRUE]]),
               !.isStreaming = FALSE,
               !.agentStage = NoStage]

\* set({ isStreaming: false, agentStage: null }) (line 485, and stopStreaming)
ClearStreaming(st) == [st EXCEPT !.isStreaming = FALSE, !.agentStage = NoStage]

\* SendThrow with the catch block looking for the message under the id it
\* was created with.
SendThrowProvisional(t) ==
    /\ turns[t].kind = "send"
    /\ Active(t)
    /\ store' = ClearStreaming(SendCatch(store, turns[t].provisional, <<"x">>))
    /\ turns' = [turns EXCEPT ![t].pc = "caught"]
    /\ UNCHANGED <<clock, loads, log, reader, wire>>

\* fetch rejects, or answers with a non-2xx status; or reader.read() rejects.
SendThrow(t) ==
    /\ turns[t].kind = "send"
    /\ Active(t)
    /\ store' = ClearStreaming(SendCatch(store, turns[t].assistantMsgId, <<"x">>))
    /\ turns' = [turns EXCEPT ![t].pc = "caught"]
    /\ UNCHANGED <<clock, loads, log, reader, wire>>

\* reader.read() resolves with a chunk that completes one `data: ` line: the
\* for loop handles its payload (lines 331-470). A chunk of several lines is
\* this step once per line with nothing in between, the loop being
\* synchronous; the splitting of chunks into lines is ReaderChunk's.
ReadChunk(t, lines) ==
    /\ turns[t].kind = "send"
    /\ turns[t].pc = "reading"
    /\ TotalFrames < MaxFrames
    /\ \E data \in lines :
         LET c == HandleLine(Ctx(store, turns[t]), data)
         IN  /\ store' = c.st
             /\ turns' = [turns EXCEPT ![t].assistantContent = c.assistantContent,
                                       ![t].assistantMsgId = c.assistantMsgId]
             /\ log' = [log EXCEPT ![t] = Append(@, data)]
    /\ UNCHANGED <<clock, loads, reader, wire>>

\* The end of the stream without the final set.
ReadEndNoClear(t) ==
    /\ turns[t].kind = "send"
    /\ turns[t].pc = "reading"
    /\ turns' = [turns EXCEPT ![t].pc = "done"]
    /\ UNCHANGED <<store, clock, loads, log, reader, wire>>

\* reader.read() resolves with done: break, then the final set (line 485).
ReadEnd(t) ==
    /\ turns[t].kind = "send"
    /\ turns[t].pc = "reading"
    /\ store' = ClearStreaming(store)
    /\ turns' = [turns EXCEPT ![t].pc = "done"]
    /\ UNCHANGED <<clock, loads, log, reader, wire>>

\* ------------------------------------------------------------ stopStreaming
\* The stop button of InputBox, shown while isStreaming.
StopStreaming ==
    /\ store.isStreaming
    /\ store' = ClearStreaming(store)
    /\ turns' = [t \in Turns |-> [turns[t] EXCEPT !.stopped = @ \/ Active(t)]]
    /\ UNCHANGED <<clock, loads, log, reader, wire>>

\* -------------------------------------------------------- regenerateMessage
\* ChatWindow: the last assistant message other than the greeting, 0 if none.
RECURSIVE LastAssistantIndex(_, _)
LastAssistantIndex(messages, i) ==
    IF i = 0 THEN 0
    ELSE IF messages[i].role = "assistant" /\ messages[i].id # <<"first-mes", 0>>
         THEN i
         ELSE LastAssistantIndex(messages, i - 1)

\* messages.findIndex(m => m.id === messageId), 1-based, 0 for -1
RECURSIVE FindIndex(_, _, _)
FindIndex(messages, messageId, i) ==
    IF i > Len(messages) THEN 0
    ELSE IF messages[i].id = messageId THEN i
    ELSE FindIndex(messages, messageId, i + 1)

\* The regenerate button of MessageBubble -> regenerateMessage(message.id),
\* up to its fetch (lines 498-509).
RegenerateMessage ==
    /\ Len(turns) < MaxTurns
    /\ LET i == LastAssistantIndex(store.messages, Len(store.messages))
       IN  /\ i # 0
           /\ ~store.messages[i].isError
           /\ ~(store.isStreaming /\ i = Len(store.messages))
           /\ store.activeSession # NoSession
           /\ FindIndex(store.messages, store.messages[i].id, 1) # 0
           /\ turns' = Append(Supersede(turns),
                  Turn("regen", "fetch", NoId,
                       FindIndex(store.messages, store.messages[i].id, 1)))
    /\ store' = [store EXCEPT !.isStreaming = TRUE]
    /\ log' = Append(log, <<>>)
    /\ UNCHANGED <<clock, loads, reader, wire>>

\* Lines 522-526: the message at msgIndex gets the new id and empty content,
\* everything after it is dropped.
RegenReplace(messages, msgIndex, newMsgId) ==
    LET mapped == [i \in 1..Len(messages) |->
                      IF i = msgIndex
                      THEN [messages[i] EXCEPT !.id = newMsgId, !.content = <<>>]
                      ELSE messages[i]]
    IN  SubSeq(mapped, 1, Min(msgIndex, Len(messages)))

\* fetch resolves with res.ok (lines 513-526).
RegenFetchOk(t) ==
    /\ turns[t].kind = "regen"
    /\ turns[t].pc = "fetch"
    /\ store' = [store EXCEPT
                    !.messages = RegenReplace(@, turns[t].msgIndex, <<"regen", clock>>)]
    /\ turns' = [turns EXCEPT ![t].pc = "reading",
                              ![t].assistantMsgId = <<"regen", clock>>,
                              ![t].provisional = <<"regen", clock>>]
    /\ clock' = clock + 1
    /\ UNCHANGED <<loads, log, reader, wire>>

\* catch (error) of regenerateMessage (lines 575-584) and the final set.
RegenCatch(st, msgIndex, message) ==
    [st EXCEPT !.messages = [i \in 1..Len(@) |->
                    IF i = msgIndex
                    THEN [@[i] EXCEPT !.content = ErrorPrefix \o message,
                                      !.isError = TRUE]
                    ELSE @[i]],
               !.isStreaming = FALSE]

RegenThrow(t) ==
    /\ turns[t].kind = "regen"
    /\ Active(t)
    /\ store' = RegenCatch(store, turns[t].msgIndex, <<"x">>)
    /\ turns' = [turns EXCEPT ![t].pc = "caught"]
    /\ UNCHANGED <<clock, loads, log, reader, wire>>

\* reader.read() resolves with a chunk holding one complete `data: ` line
\* (lines 528-573).
RegenReadChunk(t, lines) ==
    /\ turns[t].kind = "regen"
    /\ turns[t].pc = "reading"
    /\ TotalFrames < MaxFrames
    /\ \E data \in lines :
         LET c == RegenHandleLine(Ctx(store, turns[t]), data)
         IN  /\ store' = c.st
             /\ turns' = [turns EXCEPT ![t].assistantContent = c.assistantContent,
                                       ![t].assistantMsgId = c.assistantMsgId]
             /\ log' = [log EXCEPT ![t] = Append(@, data)]
    /\ UNCHANGED <<clock, loads, reader, wire>>

\* reader.read() resolves with done: break, then set({ isStreaming: false }).
RegenReadEnd(t) ==
    /\ turns[t].kind = "regen"
    /\ turns[t].pc = "reading"
    /\ store' = [store EXCEPT !.isStreaming = FALSE]
    /\ turns' = [turns EXCEPT ![t].pc = "done"]
    /\ UNCHANGED <<clock, loads, log, reader, wire>>

\* -------------------------------------------------------------- loadSession
\* The session the server holds: a user message and an illustrated answer.
LoadedMessages ==
    <<Message(<<"srv", 100>>, "user", UserText),
      [Message(<<"srv", 101>>, "assistant", <<"z">>) EXCEPT !.image_url = "u0"]>>

\* session.messages.filter(m => m.image_url).map(...)
RECURSIVE ImagesOf(_)
ImagesOf(messages) ==
    IF messages = <<>> THEN <<>>
    ELSE (IF Head(messages).image_url # NoUrl
          THEN <<[url |-> Head(messages).image_url, messageId |-> Head(messages).id]>>
          ELSE <<>>) \o ImagesOf(Tail(messages))

\* A click on a session of the list: loadSession(session.id) starts its fetch.
\* History: `during` is the set of turns whose read loop was reading when the
\* session was installed.
LoadSession ==
    /\ Len(loads) < MaxLoads
    /\ loads' = Append(loads, [pc |-> "pending", during |-> {}])
    /\ UNCHANGED <<store, turns, clock, log, reader, wire>>

\* The session arrives (lines 246-257).
LoadSessionOk(k) ==
    /\ loads[k].pc = "pending"
    /\ store' = [store EXCEPT !.activeSession = "loaded",
                              !.messages = LoadedMessages,
                              !.sessionImages = ImagesOf(LoadedMessages)]
    /\ loads' = [loads EXCEPT ![k] = [pc |-> "done",
                                       during |-> {t \in Turns : turns[t].pc = "reading"}]]
    /\ UNCHANGED <<turns, clock, log, reader, wire>>

\* ------------------------------------------------------- the frame reader
\* Text is a sequence of characters; the body is a sequence of bytes. An
\* ASCII byte is its character; "C3" "A9" are the two bytes of U+00E9.
LF == "LF"
DataPrefix == <<"d", "a", "t", "a", ":", " ">>
DoneSentinel == <<"[", "D", "O", "N", "E", "]">>

\* UTF-8 decoding of bytes after the undecoded bytes `pending`: the text, and
\* the bytes of a character still incomplete at the end. ASCII bytes up to
\* the first other byte decode to themselves; a lead byte with no
\* continuation after it, and a continuation with no lead before it, decode
\* to U+FFFD.
RECURSIVE DecodeBytes(_, _)
DecodeBytes(pending, bytes) ==
    LET s  == pending \o bytes
        sp == {i \in 1..Len(s) : s[i] \in {"C3", "A9"}}
    IN  IF sp = {} THEN [text |-> s, pending |-> <<>>]
        ELSE LET i    == CHOOSE x \in sp : \A y \in sp : x <= y
                 pre  == SubSeq(s, 1, i - 1)
                 Rest(k, ch) ==
                     LET r == DecodeBytes(<<>>, SubSeq(s, k, Len(s)))
                     IN  [text |-> pre \o <<ch>> \o r.text, pending |-> r.pending]
             IN  IF s[i] = "A9" THEN Rest(i + 1, "U+FFFD")
                 ELSE IF i = Len(s) THEN [text |-> pre, pending |-> <<"C3">>]
                 ELSE IF s[i + 1] = "A9" THEN Rest(i + 2, "U+E9")
                 ELSE Rest(i + 1, "U+FFFD")

\* decoder.decode(value, { stream }): without stream an incomplete character
\* at the end of the chunk becomes U+FFFD and nothing is kept.
TextDecoderDecode(pending, value, stream) ==
    LET r == DecodeBytes(pending, value)
    IN  IF stream THEN r
        ELSE [text |-> IF r.pending # <<>> THEN Append(r.text, "U+FFFD") ELSE r.text,
              pending |-> <<>>]

\* text.split('\n'): the piece before the first newline, then the pieces of
\* what follows it.
RECURSIVE Split(_)
Split(text) ==
    LET nl == {i \in 1..Len(text) : text[i] = LF}
    IN  IF nl = {} THEN <<text>>
        ELSE LET i == CHOOSE x \in nl : \A y \in nl : x <= y
             IN  <<SubSeq(text, 1, i - 1)>> \o Split(SubSeq(text, i + 1, Len(text)))

\* line.startsWith('data: ')
StartsWithData(line) ==
    /\ Len(line) >= Len(DataPrefix)
    /\ SubSeq(line, 1, Len(DataPrefix)) = DataPrefix

\* line.slice(6)
Slice6(line) == SubSeq(line, 7, Len(line))

RECURSIVE TrimStart(_)
TrimStart(text) ==
    IF text # <<>> /\ Head(text) = " " THEN TrimStart(Tail(text)) ELSE text

RECURSIVE TrimEnd(_)
TrimEnd(text) ==
    IF text # <<>> /\ text[Len(text)] = " "
    THEN TrimEnd(SubSeq(text, 1, Len(text) - 1))
    ELSE text

\* String.prototype.trim
Trim(text) == TrimEnd(TrimStart(text))

\* sendMessage, lines 343-349: the payloads of `lines` that reach JSON.parse.
RECURSIVE SendFrames(_)
SendFrames(lines) ==
    IF lines = <<>> THEN <<>>
    ELSE LET line == Head(lines)
             data == Trim(Slice6(line))
         IN  (IF StartsWithData(line) /\ data # DoneSentinel /\ data # <<>>
              THEN <<data>> ELSE <<>>) \o SendFrames(Tail(lines))

\* regenerateMessage, lines 535-541: the payloads that reach JSON.parse.
RECURSIVE RegenFrames(_)
RegenFrames(lines) ==
    IF lines = <<>> THEN <<>>
    ELSE LET line == Head(lines)
             data == Slice6(line)
         IN  (IF StartsWithData(line) /\ data # DoneSentinel
              THEN <<data>> ELSE <<>>) \o RegenFrames(Tail(lines))

\* regenerateMessage, lines 532-535: decode the chunk alone and split it.
RegenOnChunk(r, value) ==
    LET d == TextDecoderDecode(<<>>, value, FALSE)
    IN  [r EXCEPT !.frames = @ \o RegenFrames(Split(d.text))]

\* sendMessage's chunk handling without the line buffer: every chunk is
\* split on its own.
SendOnChunkUnbuffered(r, value) ==
    LET d == TextDecoderDecode(r.pending, value, TRUE)
    IN  [r EXCEPT !.pending = d.pending,
                  !.frames = @ \o SendFrames(Split(d.text))]

\* sendMessage, lines 335-341: decode into the buffer, split, keep the last
\* (possibly incomplete) line in the buffer.
SendOnChunk(r, value) ==
    LET d     == TextDecoderDecode(r.pending, value, TRUE)
        lines == Split(r.buffer \o d.text)
    IN  [r EXCEPT !.pending = d.pending,
                  !.buffer = lines[Len(lines)],
                  !.frames = @ \o SendFrames(SubSeq(lines, 1, Len(lines) - 1))]

\* What the server writes: data lines with a JSON payload, the [DONE]
\* sentinel, blank lines.
\* `text` is the payload the line carries when it is a frame, <<>> when the
\* line is none.
JsonPayloads ==
    {[bytes |-> <<"{", "x", "}">>, text |-> <<"{", "x", "}">>],
     [bytes |-> <<"{", "C3", "A9", "}">>, text |-> <<"{", "U+E9", "}">>]}
DataLine(payload) == DataPrefix \o payload \o <<LF>>
WireLines ==
    {[bytes |-> DataLine(p.bytes), text |-> p.text] : p \in JsonPayloads} \cup
    {[bytes |-> DataLine(DoneSentinel), text |-> <<>>],
     [bytes |-> <<LF>>, text |-> <<>>]}

\* What may follow the last complete line: nothing, or an unterminated one.
WireTails == {<<>>, DataPrefix \o <<"{", "x", "}">>}

RECURSIVE BytesOf(_)
BytesOf(ls) == IF ls = <<>> THEN <<>> ELSE Head(ls).bytes \o BytesOf(Tail(ls))

InitReader(kind) ==
    /\ store = InitStore
    /\ turns = <<>>
    /\ clock = 1
    /\ loads = <<>>
    /\ log = <<>>
    /\ wire \in [lines : SeqsUpTo(WireLines, MaxLines), tail : WireTails]
    /\ reader = [kind |-> kind, pc |-> "reading",
                 body |-> BytesOf(wire.lines) \o wire.tail,
                 pending |-> <<>>, buffer |-> <<>>, frames |-> <<>>, cut |-> {}]

\* History: where a chunk of n bytes ends: inside a line (after a byte that
\* is not a newline, with bytes to come), inside a character.
Cuts(body, n) ==
    (IF n < Len(body) /\ body[n] # LF THEN {"line"} ELSE {}) \cup
    (IF body[n] = "C3" THEN {"char"} ELSE {})

\* reader.read() resolves with the next bytes of the body, cut anywhere.
ReaderChunk ==
    /\ reader.pc = "reading"
    /\ \E n \in 1..Len(reader.body) :
         LET value == SubSeq(reader.body, 1, n)
             r     == [reader EXCEPT !.body = SubSeq(@, n + 1, Len(@)),
                                     !.cut = @ \cup Cuts(reader.body, n)]
         IN  reader' = IF reader.kind = "send" THEN SendOnChunk(r, value)
                                               ELSE RegenOnChunk(r, value)
    /\ UNCHANGED <<store, turns, clock, loads, log, wire>>

\* The end of the body with the buffer's remainder handled as a last line.
ReaderEndFlush ==
    /\ reader.pc = "reading"
    /\ reader.body = <<>>
    /\ reader' = [reader EXCEPT !.pc = "done",
                                !.frames = @ \o SendFrames(<<reader.buffer>>)]
    /\ UNCHANGED <<store, turns, clock, loads, log, wire>>

\* reader.read() resolves with done: the loop breaks, the buffer is dropped.
ReaderEnd ==
    /\ reader.pc = "reading"
    /\ reader.body = <<>>
    /\ reader' = [reader EXCEPT !.pc = "done"]
    /\ UNCHANGED <<store, turns, clock, loads, log, wire>>

\* --------------------------------------------------------------------- Next
Next ==
    \/ SendMessage
    \/ RegenerateMessage
    \/ StopStreaming
    \/ \E t \in Turns : CreateSessionOk(t)
    \/ \E t \in Turns : CreateSessionFail(t)
    \/ \E t \in Turns : FetchOk(t)
    \/ \E t \in Turns : SendThrow(t)
    \/ \E t \in Turns : ReadChunk(t, CoreWire(t))
    \/ \E t \in Turns : ReadEnd(t)
    \/ \E t \in Turns : RegenFetchOk(t)
    \/ \E t \in Turns : RegenThrow(t)
    \/ \E t \in Turns : RegenReadChunk(t, CoreWire(t))
    \/ \E t \in Turns : RegenReadEnd(t)

\* Any interleaving of MaxTurns turns with the stop button.
Spec == Init /\ [][Next]_vars

\* The same with visits to a stored session.
NextNav ==
    \/ Next
    \/ LoadSession
    \/ \E k \in 1..Len(loads) : LoadSessionOk(k)

SpecNav == Init /\ [][NextNav]_vars

NextReader == ReaderChunk \/ ReaderEnd

InitSendReader == InitReader("send")

\* The read loop of sendMessage on every body of at most MaxLines lines.
SpecReader == InitSendReader /\ [][NextReader]_vars

InitRegenReader == InitReader("regen")

\* The read loop of regenerateMessage on the same bodies.
SpecRegenReader == InitRegenReader /\ [][NextReader]_vars

\* One sendMessage turn against the agent endpoint, with the stop button, on
\* every stream of at most MaxFrames frames.
SendOnce == SendMessageUpTo(1)

NextTurn ==
    \/ SendOnce
    \/ StopStreaming
    \/ \E t \in Turns : CreateSessionOk(t)
    \/ \E t \in Turns : CreateSessionFail(t)
    \/ \E t \in Turns : FetchOk(t)
    \/ \E t \in Turns : SendThrow(t)
    \/ \E t \in Turns : ReadChunk(t, AgentWire(t))
    \/ \E t \in Turns : ReadEnd(t)

SpecTurn == Init /\ [][NextTurn]_vars

\* One sendMessage turn against the agent endpoint, with the stop button and
\* visits to a stored session.
NextVisit ==
    \/ NextTurn
    \/ LoadSession
    \/ \E k \in 1..Len(loads) : LoadSessionOk(k)

SpecVisit == Init /\ [][NextVisit]_vars

\* Any interleaving of MaxTurns turns with the stop button, on streams with
\* stage markers.
NextStaged ==
    \/ SendMessage
    \/ RegenerateMessage
    \/ StopStreaming
    \/ \E t \in Turns : CreateSessionOk(t)
    \/ \E t \in Turns : CreateSessionFail(t)
    \/ \E t \in Turns : FetchOk(t)
    \/ \E t \in Turns : SendThrow(t)
    \/ \E t \in Turns : ReadChunk(t, StagedWire(t))
    \/ \E t \in Turns : ReadEnd(t)
    \/ \E t \in Turns : RegenFetchOk(t)
    \/ \E t \in Turns : RegenThrow(t)
    \/ \E t \in Turns : RegenReadChunk(t, StagedWire(t))
    \/ \E t \in Turns : RegenReadEnd(t)

\* The promise turn t awaits settles: createSession's, fetch's, read()'s.
Settles(t) ==
    /\ t \in Turns
    /\ \/ CreateSessionOk(t) \/ CreateSessionFail(t)
       \/ FetchOk(t) \/ SendThrow(t)
       \/ ReadChunk(t, StagedWire(t)) \/ ReadEnd(t)
       \/ RegenFetchOk(t) \/ RegenThrow(t)
       \/ RegenReadChunk(t, StagedWire(t)) \/ RegenReadEnd(t)

\* Every request settles and every stream ends: an awaited promise does not
\* stay pending for ever.
SpecLive ==
    Init /\ [][NextStaged]_vars /\ \A t \in 1..MaxTurns : WF_vars(Settles(t))

\* =================================================================== claims
\* Turn a's read loop handles one payload in this step; the payload.
Handles(a) == a \in DOMAIN log /\ Len(log'[a]) = Len(log[a]) + 1
Handled(a) == log'[a][Len(log'[a])]

\* ------------------------------------------------------------------- C1
\* The bytes of the body the read loop has been given so far.
DeliveredBytes == Len(BytesOf(wire.lines)) + Len(wire.tail) - Len(reader.body)

\* How many leading lines of ls lie within the first n bytes.
RECURSIVE CompleteCount(_, _)
CompleteCount(ls, n) ==
    IF ls = <<>> \/ Len(Head(ls).bytes) > n THEN 0
    ELSE 1 + CompleteCount(Tail(ls), n - Len(Head(ls).bytes))

\* The payloads of the frames among the lines ls, in order.
RECURSIVE PayloadsOf(_)
PayloadsOf(ls) ==
    IF ls = <<>> THEN <<>>
    ELSE (IF Head(ls).text # <<>> THEN <<Head(ls).text>> ELSE <<>>) \o PayloadsOf(Tail(ls))

\* C1: however the body is cut into chunks, the frames sendMessage's read
\* loop has handled are exactly the payloads of the complete `data: ` lines
\* delivered so far, in order and unchanged; at the end of the body, those of
\* all its lines.
C1_FrameReassembly ==
    reader.pc # "idle" =>
        reader.frames =
            PayloadsOf(SubSeq(wire.lines, 1, CompleteCount(wire.lines, DeliveredBytes)))

\* A body of two frames or more, read to its end, with a chunk boundary
\* inside a line and one inside a two-byte character.
C1_Witness ==
    /\ reader.pc = "done"
    /\ reader.cut = {"line", "char"}
    /\ Len(reader.frames) >= 2
    /\ reader.frames = PayloadsOf(wire.lines)
    /\ \E i \in 1..Len(reader.frames) : reader.frames[i] = <<"{", "U+E9", "}">>

\* ------------------------------------------------------------------- C2
\* C2: once another turn has made its first state mutation while turn A's
\* read loop was reading, no frame of A's stream changes the store.
C2_NoMutationFromSuperseded ==
    [][\A a \in DOMAIN turns :
          (turns[a].superseded /\ Handles(a)) => store' = store]_vars

\* ------------------------------------------------------------------- C3
\* C3: at most one turn's read loop is consuming its stream.
C3_AtMostOneActiveLoop ==
    Cardinality({t \in Turns : turns[t].pc = "reading"}) <= 1

\* ------------------------------------------------------------------- C4
\* C4: after stopStreaming, no frame of the stopped turn changes the
\* messages, sessionImages, agentStage or the stage accumulators.
C4_NoFrameAfterStop ==
    [][\A a \in DOMAIN turns :
          (turns[a].stopped /\ Handles(a)) =>
              /\ store'.messages = store.messages
              /\ store'.sessionImages = store.sessionImages
              /\ store'.agentStage = store.agentStage
              /\ store'.directorOutput = store.directorOutput
              /\ store'.paintDirectorOutput = store.paintDirectorOutput]_vars

\* ------------------------------------------------------------- C5 .. C10
\* The records the read loop has parsed: the complete payloads of lg.
RECURSIVE ParsedOf(_)
ParsedOf(lg) ==
    IF lg = <<>> THEN <<>>
    ELSE (IF Head(lg).complete THEN <<Head(lg).json>> ELSE <<>>) \o ParsedOf(Tail(lg))

\* The kinds of section 4.2 a record is of.
IsStageChunk(e) == e.type \in {"director_chunk", "paint_chunk"} /\ e.content # <<>>
IsOutline(e) == e.type = "outline"
IsContentDelta(e) == e.type = "content" /\ e.content # <<>>
IsPostProcessed(e) == e.type = "processed_content" /\ e.content # <<>>
IsIdAssigned(e) == e.message_id # NoId
IsDoneProcessed(e) == e.done /\ e.processed_content # <<>>
IsFailure(e) == e.error # <<>>

\* The deltas of the records es, concatenated in order.
RECURSIVE ConcatDeltas(_)
ConcatDeltas(es) ==
    IF es = <<>> THEN <<>>
    ELSE (IF IsContentDelta(Head(es)) THEN Head(es).content ELSE <<>>)
         \o ConcatDeltas(Tail(es))

\* The positions of the messages with a given id.
Slots(messages, id) == {i \in 1..Len(messages) : messages[i].id = id}

SendTurns == {t \in Turns : turns[t].kind = "send"}

\* ------------------------------------------------------------------- C5
OnlyId(e) == e = [EmptyEvent EXCEPT !.message_id = e.message_id]

\* A frame assigning turn a's message a new id: the closure tracks it, the
\* list keeps its length, the entry with the old id is the same entry under
\* the new id, every other entry is untouched, the old id is gone.
C5_RenameStep(a) ==
    LET e   == Handled(a).json
        old == turns[a].assistantMsgId
    IN  (/\ Handled(a).complete
         /\ ~IsStageChunk(e) /\ ~IsOutline(e)
         /\ IsIdAssigned(e) /\ e.message_id # old) =>
            /\ turns'[a].assistantMsgId = e.message_id
            /\ Len(store'.messages) = Len(store.messages)
            /\ \A i \in 1..Len(store.messages) :
                 /\ store'.messages[i].id # old
                 /\ IF store.messages[i].id = old
                    THEN /\ store'.messages[i].id = e.message_id
                         /\ OnlyId(e) =>
                              store'.messages[i] =
                                  [store.messages[i] EXCEPT !.id = e.message_id]
                    ELSE store'.messages[i] = store.messages[i]

\* A delta after the id was assigned lands on the message under that id.
C5_DeltaStep(a) ==
    LET e  == Handled(a).json
        id == turns[a].assistantMsgId
    IN  (/\ Handled(a).complete
         /\ IsContentDelta(e) /\ ~IsFailure(e) /\ ~IsDoneProcessed(e)
         /\ id # turns[a].provisional) =>
            /\ Slots(store'.messages, turns'[a].assistantMsgId) = Slots(store.messages, id)
            /\ \A i \in Slots(store.messages, id) :
                 store'.messages[i].content = ConcatDeltas(ParsedOf(log'[a]))

\* Once the id was assigned, the turn's message is the one entry under the
\* tracked id, where sendMessage appended it, and none has the provisional id.
C5_Renamed ==
    \A a \in SendTurns :
        (turns[a].assistantMsgId # turns[a].provisional) =>
            /\ Slots(store.messages, turns[a].provisional) = {}
            /\ Slots(store.messages, turns[a].assistantMsgId) = {Len(store.messages)}

\* C5: a frame with a different message_id renames the turn's message in
\* place (same position, content kept, same length, no entry left under the
\* provisional id), and a later ContentDelta is applied to the message under
\* the server id.
C5_IdAliasing ==
    [][/\ \A a \in DOMAIN turns :
            (turns[a].kind = "send" /\ Handles(a)) => C5_RenameStep(a) /\ C5_DeltaStep(a)
       /\ C5_Renamed']_vars

\* Delta "a", the server id, delta "bc": the third entry is the message under
\* the server id, with content "abc".
C5_Witness ==
    /\ Len(turns) = 1
    /\ log[1] = <<Payload(Delta(<<"a">>), TRUE),
                  Payload([EmptyEvent EXCEPT !.message_id = ServerId(1)], TRUE),
                  Payload(Delta(<<"b", "c">>), TRUE)>>
    /\ Len(store.messages) = 3
    /\ store.messages[3].id = ServerId(1)
    /\ store.messages[3].content = <<"a", "b", "c">>

\* ------------------------------------------------------------------- C6
NoReplaceOrFailure(es) ==
    \A i \in 1..Len(es) :
        ~IsPostProcessed(es[i]) /\ ~IsDoneProcessed(es[i]) /\ ~IsFailure(es[i])

\* C6: with no PostProcessed, no Done carrying processed_content and no
\* Failure among the frames so far, the turn's message holds the
\* concatenation of the deltas received so far, in arrival order.
C6_ContentIsConcatenation ==
    \A a \in SendTurns :
        (/\ turns[a].pc \in {"reading", "done"}
         /\ NoReplaceOrFailure(ParsedOf(log[a]))) =>
            /\ Slots(store.messages, turns[a].assistantMsgId) # {}
            /\ \A i \in Slots(store.messages, turns[a].assistantMsgId) :
                 store.messages[i].content = ConcatDeltas(ParsedOf(log[a]))

\* Deltas "bc", "a", "bc" in this order.
C6_Witness ==
    /\ Len(turns) = 1
    /\ log[1] = <<Payload(Delta(<<"b", "c">>), TRUE), Payload(Delta(<<"a">>), TRUE),
                  Payload(Delta(<<"b", "c">>), TRUE)>>
    /\ store.messages[3].content = <<"b", "c", "a", "b", "c">>

\* ------------------------------------------------------------------- C7
\* C7: when the last frame handled is a Done carrying processed_content, the
\* turn's message (under the id the frame may have assigned) holds exactly
\* that processed_content.
C7_DoneProcessedOverrides ==
    \A a \in SendTurns :
        (/\ turns[a].pc \in {"reading", "done"}
         /\ log[a] # <<>>
         /\ log[a][Len(log[a])].complete
         /\ IsDoneProcessed(log[a][Len(log[a])].json)
         /\ ~IsFailure(log[a][Len(log[a])].json)
         /\ ~IsStageChunk(log[a][Len(log[a])].json)
         /\ ~IsOutline(log[a][Len(log[a])].json)) =>
            /\ Slots(store.messages, turns[a].assistantMsgId) # {}
            /\ \A i \in Slots(store.messages, turns[a].assistantMsgId) :
                 store.messages[i].content = log[a][Len(log[a])].json.processed_content

\* Deltas "a", "bc", then Done with processed_content "Q" and the server id.
C7_Witness ==
    /\ Len(turns) = 1
    /\ turns[1].pc = "done"
    /\ log[1] = <<Payload(Delta(<<"a">>), TRUE), Payload(Delta(<<"b", "c">>), TRUE),
                  Payload([EmptyEvent EXCEPT !.done = TRUE,
                                             !.processed_content = <<"Q">>,
                                             !.message_id = ServerId(1)], TRUE)>>
    /\ store.messages[3].id = ServerId(1)
    /\ store.messages[3].content = <<"Q">>

\* ------------------------------------------------------------------- C8
\* C8: sessionImages never holds two entries with equal url and messageId.
C8_ImageDedupe ==
    \A i, j \in 1..Len(store.sessionImages) :
        i # j => store.sessionImages[i] # store.sessionImages[j]

\* ------------------------------------------------------------------- C9
\* C9: a frame whose payload does not parse changes neither the store nor the
\* turn: the loop goes on reading as if the frame had not been sent.
C9_MalformedFrameSkipped ==
    [][\A a \in DOMAIN turns :
          (turns[a].kind = "send" /\ Handles(a) /\ ~Handled(a).complete) =>
              store' = store /\ turns' = turns]_vars

\* A truncated frame, then delta "bc", which is applied.
C9_Witness ==
    /\ Len(turns) = 1
    /\ turns[1].pc = "reading"
    /\ log[1] = <<Payload(Delta(<<"a">>), FALSE), Payload(Delta(<<"b", "c">>), TRUE)>>
    /\ store.messages[3].content = <<"b", "c">>
    /\ ~store.messages[3].isError
    /\ store.isStreaming

\* ------------------------------------------------------------------ C10
\* C10: when a Failure frame follows deltas, the message keeps the content
\* accumulated so far and is flagged isError.
C10_FailureKeepsContent ==
    \A a \in SendTurns :
        (/\ turns[a].pc = "reading"
         /\ Len(log[a]) >= 2
         /\ log[a][Len(log[a])].complete
         /\ IsFailure(log[a][Len(log[a])].json)
         /\ ~IsStageChunk(log[a][Len(log[a])].json)
         /\ ~IsOutline(log[a][Len(log[a])].json)
         /\ NoReplaceOrFailure(ParsedOf(SubSeq(log[a], 1, Len(log[a]) - 1)))
         /\ ConcatDeltas(ParsedOf(log[a])) # <<>>) =>
            \A i \in Slots(store.messages, turns[a].assistantMsgId) :
                /\ store.messages[i].content = ConcatDeltas(ParsedOf(log[a]))
                /\ store.messages[i].isError

\* ------------------------------------------------------------------ C11
\* A payload whose Failure facet the read loop applies: it parses, carries an
\* error, and is no StageChunk / outline (whose processing stops before).
AppliedFailure(p) ==
    p.complete /\ IsFailure(p.json) /\ ~IsStageChunk(p.json) /\ ~IsOutline(p.json)

\* A payload whose Done facet the read loop applies.
AppliedDone(p) ==
    p.complete /\ p.json.done /\ ~IsStageChunk(p.json) /\ ~IsOutline(p.json)

\* The step of the Failure frame: the turn's message is flagged and shows the
\* error text, isStreaming is false, agentStage is null.
C11_FailureStep(a) ==
    AppliedFailure(Handled(a)) =>
        /\ ~store'.isStreaming
        /\ store'.agentStage = NoStage
        /\ Slots(store'.messages, turns'[a].assistantMsgId) # {}
        /\ \A i \in Slots(store'.messages, turns'[a].assistantMsgId) :
             /\ store'.messages[i].isError
             /\ store'.messages[i].content = ErrorPrefix \o Handled(a).json.error

\* A frame of a stream that has had its Failure frame is not applied.
C11_AfterFailure(a) ==
    (\E i \in 1..Len(log[a]) : AppliedFailure(log[a][i])) =>
        /\ store' = store
        /\ turns'[a].assistantContent = turns[a].assistantContent
        /\ turns'[a].assistantMsgId = turns[a].assistantMsgId

\* C11: a Failure frame flags the turn's message, sets its content to the
\* error text, sets isStreaming false and agentStage null, and no later frame
\* of that stream is applied.
C11_FailureTerminates ==
    [][\A a \in DOMAIN turns :
          (turns[a].kind = "send" /\ Handles(a)) =>
              C11_FailureStep(a) /\ C11_AfterFailure(a)]_vars

\* ------------------------------------------------------------------ C12
\* The turn has reached a terminal state: a Done or a Failure frame was
\* applied, or stopStreaming was called on it.
Terminal(a) ==
    \/ turns[a].stopped
    \/ \E i \in 1..Len(log[a]) : AppliedDone(log[a][i]) \/ AppliedFailure(log[a][i])

\* C12: once a turn is terminal, no later frame of its stream changes its
\* assistant message (content, id, image_url, isError).
C12_TerminalImmutable ==
    [][\A a \in DOMAIN turns :
          (turns[a].kind = "send" /\ Terminal(a) /\ Handles(a)) =>
              \A i \in Slots(store.messages, turns[a].assistantMsgId) :
                  /\ i <= Len(store'.messages)
                  /\ store'.messages[i] = store.messages[i]]_vars

\* ------------------------------------------------------------------ C13
\* Turn a's sendMessage leaves through its catch block in this step.
Caught(a) == turns[a].kind = "send" /\ Active(a) /\ turns'[a].pc = "caught"

\* The text shown for an error: the prefix followed by a message.
IsErrorText(content) ==
    Len(content) > Len(ErrorPrefix) /\ SubSeq(content, 1, Len(ErrorPrefix)) = ErrorPrefix

\* C13: a transport error of sendMessage (fetch rejected or not ok, read
\* rejected), before or after an id reassignment, puts the error text and
\* isError on the turn's message under the id it has then, sets isStreaming
\* false, and changes no other message.
C13_TransportError ==
    [][\A a \in DOMAIN turns :
          Caught(a) =>
              /\ ~store'.isStreaming
              /\ Len(store'.messages) = Len(store.messages)
              /\ Slots(store.messages, turns[a].assistantMsgId) = {Len(store.messages)}
              /\ \A i \in 1..Len(store.messages) :
                   IF store.messages[i].id = turns[a].assistantMsgId
                   THEN /\ store'.messages[i].isError
                        /\ IsErrorText(store'.messages[i].content)
                        /\ store'.messages[i] =
                             [store.messages[i] EXCEPT
                                 !.isError = TRUE,
                                 !.content = store'.messages[i].content]
                   ELSE store'.messages[i] = store.messages[i]]_vars

\* Delta "a", the server id, then the read rejects: the message under the
\* server id shows the error.
C13_Witness ==
    /\ Len(turns) = 1
    /\ turns[1].pc = "caught"
    /\ log[1] = <<Payload(Delta(<<"a">>), TRUE),
                  Payload([EmptyEvent EXCEPT !.message_id = ServerId(1)], TRUE)>>
    /\ store.messages[3].id = ServerId(1)
    /\ store.messages[3].isError
    /\ IsErrorText(store.messages[3].content)
    /\ ~store.messages[2].isError
    /\ ~store.isStreaming

\* ------------------------------------------------------------------ C14
\* C14: no invocation of sendMessage or regenerateMessage ends with a
\* rejected promise, whichever request or parse fails.
C14_NoRejectedPromise == \A t \in Turns : turns[t].pc # "rejected"

\* ------------------------------------------------------------------ C15
\* A payload whose wholesale-replace facet the read loop applies: a
\* PostProcessed frame, or a Done frame carrying processed_content.
AppliedReplace(p) ==
    /\ p.complete /\ ~IsStageChunk(p.json) /\ ~IsOutline(p.json)
    /\ IsPostProcessed(p.json) \/ IsDoneProcessed(p.json)

\* C15: while a turn is streaming (reading, not yet terminal), no step makes
\* its message's content shorter, except a step applying a PostProcessed
\* frame or a Done frame with processed_content.
C15_ContentNeverShrinks ==
    [][\A a \in DOMAIN turns :
          (/\ turns[a].kind = "send"
           /\ turns[a].pc = "reading"
           /\ ~Terminal(a)
           /\ ~(Handles(a) /\ AppliedReplace(Handled(a)))) =>
              \A i \in Slots(store.messages, turns[a].assistantMsgId) :
                  /\ i <= Len(store'.messages)
                  /\ Len(store'.messages[i].content) >= Len(store.messages[i].content)]_vars

\* ------------------------------------------------------------------ C16
\* C16: once loadSession has installed a session while turn a's read loop was
\* reading, no frame of a's stream changes messages, sessionImages,
\* agentStage or the stage accumulators.
C16_LoadSessionCancels ==
    [][\A a \in DOMAIN turns : \A k \in DOMAIN loads :
          (loads[k].pc = "done" /\ a \in loads[k].during /\ Handles(a)) =>
              /\ store'.messages = store.messages
              /\ store'.sessionImages = store.sessionImages
              /\ store'.agentStage = store.agentStage
              /\ store'.directorOutput = store.directorOutput
              /\ store'.paintDirectorOutput = store.paintDirectorOutput]_vars

\* ------------------------------------------------------------------ C17
\* Turn a's regenerateMessage gets its successful response in this step.
RegenStarts(a) ==
    turns[a].kind = "regen" /\ turns[a].pc = "fetch" /\ turns'[a].pc = "reading"

\* C17: when regenerateMessage gets a successful response for the message at
\* (1-based) position i, the list then holds exactly i messages, those before
\* i are unchanged, and the entry at i is a fresh provisional message: a new
\* id, empty content, no isError flag and no image_url.
C17_RegenerateFreshMessage ==
    [][\A a \in DOMAIN turns :
          RegenStarts(a) =>
              LET i == turns[a].msgIndex
              IN  /\ Len(store'.messages) = i
                  /\ \A j \in 1..(i - 1) : store'.messages[j] = store.messages[j]
                  /\ store'.messages[i].id = turns'[a].provisional
                  /\ \A j \in 1..Len(store.messages) :
                         store.messages[j].id # turns'[a].provisional
                  /\ store'.messages[i].content = <<>>
                  /\ ~store'.messages[i].isError
                  /\ store'.messages[i].image_url = NoUrl]_vars

\* ------------------------------------------------------------------ C18
\* C18: in regenerateMessage, once a frame has assigned a server message_id
\* the regenerated message is the entry under that id, and a later frame's
\* content or error is applied to it.
C18_RegenIdAliasing ==
    [][\A a \in DOMAIN turns :
          (turns[a].kind = "regen" /\ Handles(a) /\ Handled(a).complete) =>
              LET e  == Handled(a).json
                  id == turns'[a].assistantMsgId
              IN  (id # turns[a].provisional) =>
                      /\ Slots(store'.messages, id) # {}
                      /\ \A i \in Slots(store'.messages, id) :
                           /\ (e.content # <<>> /\ e.error = <<>>) =>
                                  store'.messages[i].content = turns'[a].assistantContent
                           /\ (e.error # <<>>) => store'.messages[i].isError]_vars

\* ------------------------------------------------------------------ C19
\* C19: however the body is cut into chunks, once regenerateMessage's read
\* loop has read a body to its end (a body ending with a newline), the frames
\* it has handled are exactly the payloads of the body's `data: ` lines, each
\* once and whole.
C19_RegenFrameReassembly ==
    (reader.kind = "regen" /\ reader.pc = "done" /\ wire.tail = <<>>) =>
        reader.frames = PayloadsOf(wire.lines)

\* ------------------------------------------------------------------ C20
IsImagePrompt(e) == e.type = "image" /\ e.prompt # <<>>

\* The contents of the messages, in order.
Contents(messages) == [i \in 1..Len(messages) |-> messages[i].content]

\* C20: a director_chunk, outline or paint_chunk frame leaves the messages,
\* the gallery, isStreaming and the closure untouched and, when it carries no
\* stage name, changes nothing but the accumulator of its stage; the prompt
\* of an image frame replaces paintDirectorOutput and changes no message's
\* content.
C20_StageFramesKeepContent ==
    [][\A a \in DOMAIN turns :
          (turns[a].kind = "send" /\ Handles(a) /\ Handled(a).complete) =>
              LET e == Handled(a).json
              IN  /\ (IsStageChunk(e) \/ IsOutline(e)) =>
                        /\ store'.messages = store.messages
                        /\ store'.sessionImages = store.sessionImages
                        /\ store'.isStreaming = store.isStreaming
                        /\ turns' = turns
                        /\ (e.stage = "" /\ e.type \in {"director_chunk", "outline"}) =>
                               store' = [store EXCEPT
                                            !.directorOutput = store'.directorOutput]
                        /\ (e.stage = "" /\ e.type = "paint_chunk") =>
                               store' = [store EXCEPT
                                            !.paintDirectorOutput = store'.paintDirectorOutput]
                  /\ (IsImagePrompt(e) /\ ~IsDoneProcessed(e) /\ ~IsFailure(e)) =>
                        /\ Contents(store'.messages) = Contents(store.messages)
                        /\ store'.paintDirectorOutput = e.prompt
                        /\ e.stage = "" => store'.directorOutput = store.directorOutput]_vars

\* Delta "a", a director chunk, an image frame with prompt and url: the
\* message still reads "a", the accumulators hold the chunk and the prompt.
C20_Witness ==
    /\ Len(turns) = 1
    /\ log[1] = <<Payload(Delta(<<"a">>), TRUE),
                  Payload([EmptyEvent EXCEPT !.type = "director_chunk",
                                             !.content = <<"o">>], TRUE),
                  Payload([EmptyEvent EXCEPT !.type = "image", !.prompt = <<"R">>,
                                             !.url = "u1"], TRUE)>>
    /\ store.messages[3].content = <<"a">>
    /\ store.directorOutput = <<"o">>
    /\ store.paintDirectorOutput = <<"R">>

\* ------------------------------------------------------------------ C21
IsDirectorChunk(e) == e.type = "director_chunk" /\ e.content # <<>>
IsPaintChunk(e) == e.type = "paint_chunk" /\ e.content # <<>>

\* The record starts the stage: it names it, and is not a chunk of that
\* stage arriving while the stage is already under way.
StartsStage(e, stage, cur, isChunk) == e.stage = stage /\ ~(isChunk /\ cur = stage)

\* What the accumulator holds after a record: empty at the start of its
\* stage, then the chunk appended, or the final payload in its place.
AccumulatorAfter(before, starts, chunk, final) ==
    LET base == IF starts THEN <<>> ELSE before
    IN  IF chunk # <<>> THEN base \o chunk
        ELSE IF final # <<>> THEN final
        ELSE base

\* C21: over any frames of one turn each stage accumulator is empty when its
\* stage starts, then the concatenation of the stage's chunks in arrival
\* order, and the final payload (outline content / image prompt) once that
\* has arrived; chunk frames that carry the `stage` field themselves are
\* appended like the others.
C21_StageAccumulators ==
    [][\A a \in DOMAIN turns :
          (turns[a].kind = "send" /\ Handles(a) /\ Handled(a).complete) =>
              LET e == Handled(a).json
              IN  /\ store'.directorOutput =
                       AccumulatorAfter(store.directorOutput,
                           StartsStage(e, "director", store.agentStage, IsDirectorChunk(e)),
                           IF IsDirectorChunk(e) THEN e.content ELSE <<>>,
                           IF IsOutline(e) THEN e.content ELSE <<>>)
                  /\ store'.paintDirectorOutput =
                       AccumulatorAfter(store.paintDirectorOutput,
                           StartsStage(e, "paint_director", store.agentStage, IsPaintChunk(e)),
                           IF IsPaintChunk(e) THEN e.content ELSE <<>>,
                           IF IsImagePrompt(e) /\ ~IsDirectorChunk(e) THEN e.prompt ELSE <<>>)]_vars

\* ------------------------------------------------------------------ C22
\* C22: a StageChunk frame (director_chunk / paint_chunk with content) takes
\* effect through its `stage` field and its chunk only: whatever url,
\* message_id, done or error the record carries, the messages, the gallery,
\* isStreaming and the closure are unchanged, and agentStage is the record's
\* stage name if it has one, else what it was.
C22_StageChunkStops ==
    [][\A a \in DOMAIN turns :
          (/\ turns[a].kind = "send" /\ Handles(a)
           /\ Handled(a).complete /\ IsStageChunk(Handled(a).json)) =>
              LET e == Handled(a).json
              IN  /\ turns' = turns
                  /\ store'.messages = store.messages
                  /\ store'.sessionImages = store.sessionImages
                  /\ store'.isStreaming = store.isStreaming
                  /\ store'.agentStage =
                        IF e.stage # "" THEN e.stage ELSE store.agentStage]_vars

\* A writer stage, then a paint chunk that also carries a url, a message_id,
\* done and an error: only the chunk is taken.
C22_Witness ==
    /\ Len(turns) = 1
    /\ turns[1].pc = "reading"
    /\ log[1] = <<Payload([EmptyEvent EXCEPT !.stage = "writer"], TRUE),
                  Payload([EmptyEvent EXCEPT !.type = "paint_chunk",
                                             !.content = <<"p">>, !.url = "u1",
                                             !.message_id = ServerId(1),
                                             !.done = TRUE, !.error = <<"e">>], TRUE)>>
    /\ store.paintDirectorOutput = <<"p">>
    /\ store.agentStage = "writer"
    /\ store.isStreaming
    /\ store.sessionImages = <<>>
    /\ store.messages[3] = Message(<<"assistant", 1>>, "assistant", <<>>)
    /\ turns[1].assistantMsgId = <<"assistant", 1>>

\* ------------------------------------------------------------------ C23
\* C23: a StageFinal record (outline, or image with a prompt) that also
\* carries an image url, a message_id, a done marker or an error has each of
\* them take effect in the same frame.
C23_StageFinalFacets ==
    [][\A a \in DOMAIN turns :
          (/\ turns[a].kind = "send" /\ Handles(a) /\ Handled(a).complete
           /\ IsOutline(Handled(a).json) \/ IsImagePrompt(Handled(a).json)
           /\ ~IsStageChunk(Handled(a).json)) =>
              LET e  == Handled(a).json
                  id == turns'[a].assistantMsgId
              IN  /\ IsIdAssigned(e) => id = e.message_id
                  /\ e.done => ~store'.isStreaming /\ store'.agentStage = NoStage
                  /\ (e.type = "image" /\ e.url # NoUrl) =>
                        /\ \A i \in Slots(store'.messages, id) :
                               store'.messages[i].image_url = e.url
                        /\ Len(store'.sessionImages) = Len(store.sessionImages) + 1
                  /\ IsFailure(e) =>
                        \A i \in Slots(store'.messages, id) : store'.messages[i].isError]_vars

\* ------------------------------------------------------------------ C24
\* A record that is a ContentDelta and nothing else.
OnlyDelta(e) == IsContentDelta(e) /\ e = [EmptyEvent EXCEPT !.type = "content", !.content = e.content]

\* C24: a ContentDelta frame appends: the message's content after the frame
\* is its content before the frame followed by the delta, also when that
\* content was installed by an earlier PostProcessed frame of the turn.
C24_DeltaAppends ==
    [][\A a \in DOMAIN turns :
          (/\ turns[a].kind = "send" /\ ~Terminal(a) /\ Handles(a)
           /\ Handled(a).complete /\ OnlyDelta(Handled(a).json)) =>
              \A i \in Slots(store.messages, turns[a].assistantMsgId) :
                  store'.messages[i].content =
                      store.messages[i].content \o Handled(a).json.content]_vars

\* ------------------------------------------------------------------ C25
\* C25: when the stream ends, what the line buffer still holds is dropped:
\* the step handles no frame and changes no state, and the frames handled
\* are those of the terminated lines only, even if the remainder is a whole
\* `data: {...}` payload.
C25_TailDiscarded ==
    [][(reader.pc = "reading" /\ reader'.pc = "done") =>
          /\ reader'.frames = reader.frames
          /\ reader.frames = PayloadsOf(wire.lines)
          /\ store' = store]_vars

\* A body read to its end whose unterminated last line is a whole payload,
\* still in the buffer, after one frame or more.
C25_Witness ==
    /\ reader.pc = "done"
    /\ wire.tail = DataPrefix \o <<"{", "x", "}">>
    /\ reader.buffer = wire.tail
    /\ Len(reader.frames) >= 1
    /\ "line" \in reader.cut

\* ------------------------------------------------------------------ C26
\* Turn a's invocation returns in this step, past its loop or through its
\* catch block.
Returns(a) == Active(a) /\ turns'[a].pc \in {"done", "caught"}

\* Turn a has returned with the status cleared.
Cleared(a) ==
    /\ a \in Turns
    /\ turns[a].pc \in {"done", "caught"}
    /\ ~store.isStreaming
    /\ turns[a].kind = "send" => store.agentStage = NoStage

\* C26: every invocation whose request has been issued reaches, when its
\* stream ends (after Done, after Failure, without either, or by a thrown
\* transport error), a state with isStreaming false and, for sendMessage,
\* agentStage null; the end of a stream without Done or Failure changes no
\* message, and the message of a turn that ran alone is then unflagged and
\* holds the accumulated content.
C26_TurnEnds ==
    /\ [][\A a \in DOMAIN turns :
            Returns(a) =>
              /\ ~store'.isStreaming
              /\ turns[a].kind = "send" => store'.agentStage = NoStage
              /\ (turns'[a].pc = "done" /\ ~Terminal(a)) =>
                    /\ store'.messages = store.messages
                    /\ Len(turns) = 1 =>
                          \A i \in Slots(store'.messages, turns[a].assistantMsgId) :
                              /\ ~store'.messages[i].isError
                              /\ store'.messages[i].content = turns[a].assistantContent]_vars
    /\ \A a \in 1..MaxTurns : (a \in Turns /\ Active(a)) ~> Cleared(a)

\* A sendMessage turn that showed a stage and a delta, and whose stream
\* ended without Done or Failure.
C26_Witness ==
    /\ Len(turns) >= 1
    /\ turns[1].kind = "send" /\ turns[1].pc = "done" /\ ~turns[1].stopped
    /\ Len(log[1]) = 2
    /\ log[1][1].json.stage = "writer"
    /\ IsContentDelta(log[1][2].json)
    /\ ~store.isStreaming /\ store.agentStage = NoStage
    /\ \E i \in Slots(store.messages, turns[1].assistantMsgId) :
           store.messages[i].content = <<"a">> /\ ~store.messages[i].isError

\* ------------------------------------------------------------------ C27
\* Turn a completes in this step: it returns, or handles Done or Failure.
Completes(a) ==
    \/ Returns(a)
    \/ Handles(a) /\ (AppliedDone(Handled(a)) \/ AppliedFailure(Handled(a)))

\* C27: while a later-started turn's read loop is consuming its stream, the
\* completion of an earlier-started turn (end of stream, Done, Failure,
\* catch) neither sets isStreaming to false nor changes agentStage.
C27_EarlierKeepsLaterStatus ==
    [][\A a \in DOMAIN turns : \A b \in DOMAIN turns :
          (a < b /\ turns[b].pc = "reading" /\ Completes(a)) =>
              /\ store'.isStreaming = store.isStreaming
              /\ store'.agentStage = store.agentStage]_vars

\* ------------------------------------------------------------------ C28
\* C28: once a turn has ended, every sessionImages entry is the image of a
\* message of the list: its messageId is the id of an assistant message
\* whose image_url is the entry's url, also when the server reassigned the
\* id after the image frame.
C28_ImagesReferToMessages ==
    (\E a \in Turns : turns[a].kind = "send" /\ turns[a].pc = "done") =>
        \A k \in 1..Len(store.sessionImages) :
            \E i \in 1..Len(store.messages) :
                /\ store.messages[i].id = store.sessionImages[k].messageId
                /\ store.messages[i].role = "assistant"
                /\ store.messages[i].image_url = store.sessionImages[k].url

\* ------------------------------------------------------------------ C29
\* C29: in every state, isStreaming = false implies agentStage = null: no
\* stage marker is shown while no turn is reported as streaming.
C29_StageOnlyWhileStreaming ==
    ~store.isStreaming => store.agentStage = NoStage

\* ------------------------------------------------------------------ C30
\* Turn a issues its request in this step.
Issues(a) == turns[a].kind = "send" /\ turns[a].pc # "fetch" /\ turns'[a].pc = "fetch"

\* C30: sendMessage appends exactly two messages, the user message and then
\* an empty assistant message, before its request is issued; afterwards no
\* frame of its stream changes the number or the order of the messages, or
\* any field of a message other than the turn's own assistant message.
C30_OwnMessageOnly ==
    [][/\ \A a \in DOMAIN turns' :
            (IF a \in DOMAIN turns THEN Issues(a)
                                    ELSE turns'[a].kind = "send" /\ turns'[a].pc = "fetch") =>
                LET n    == Len(store'.messages)
                    base == IF a \in DOMAIN turns /\ turns[a].pc = "createSession"
                            THEN CreateSessionDone(store).messages
                            ELSE store.messages
                IN  /\ n = Len(base) + 2
                    /\ SubSeq(store'.messages, 1, n - 2) = base
                    /\ store'.messages[n - 1].role = "user"
                    /\ store'.messages[n - 1].content = UserText
                    /\ store'.messages[n] =
                           Message(turns'[a].assistantMsgId, "assistant", <<>>)
       /\ \A a \in DOMAIN turns :
            (turns[a].kind = "send" /\ Handles(a)) =>
                /\ Len(store'.messages) = Len(store.messages)
                /\ \A i \in 1..Len(store.messages) :
                       \/ store'.messages[i] = store.messages[i]
                       \/ /\ store.messages[i].id = turns[a].assistantMsgId
                          /\ store.messages[i].role = "assistant"
                          /\ store'.messages[i].role = "assistant"
                          /\ store'.messages[i].id = turns'[a].assistantMsgId]_vars

\* A turn whose stream renamed and filled its message, the greeting and the
\* user message being as sendMessage left them.
C30_Witness ==
    /\ Len(turns) = 1 /\ turns[1].pc = "done"
    /\ Len(log[1]) = 3
    /\ Len(store.messages) = 3
    /\ store.messages[1] = Message(<<"first-mes", 0>>, "assistant", FirstMes)
    /\ store.messages[2] = Message(<<"temp", 1>>, "user", UserText)
    /\ store.messages[3].id = ServerId(1)
    /\ store.messages[3].content = <<"a">>
    /\ store.messages[3].image_url = "u1"

====
